---- MODULE Spec2Model ----
(***************************************************************************)
(* VoynichExplorer: the transliteration parser and word indexer            *)
(* (scripts/parser.py), the corpus store written by insert_values, the     *)
(* page renderer (scripts/vsig.py) and the composite image name            *)
(* decomposition (scripts/folio_split.py).                                 *)
(*                                                                         *)
(* Text is modelled as a sequence of one-character strings, so that the    *)
(* regular expressions, split, join and strip of the code are computed     *)
(* character by character.                                                 *)
(***************************************************************************)
EXTENDS Integers, Sequences, FiniteSets, TLC

VARIABLES
    \* ---- parser.py: split_folios / parse_word_appearances
    full_text,      \* the corpus text handed to split_folios
    all_split,      \* re.split(...)[1:] : tag, segment, tag, segment, ...
    i,              \* loop variable of split_folios (0-based, step 2)
    folios,         \* the dict folio name -> cleaned contents, in key order
    app_words,      \* appearances.words
    app_folios,     \* appearances.folios (parallel to app_words)
    unique_words,   \* the set still to be popped in parse_word_appearances
    folio_name,     \* the folio being indexed
    processed,      \* history: the (folio name, cleaned contents) pairs indexed so far
    pc,             \* position of the parse run (parsing, then insert_values)
    \* ---- parser.py: insert_values and the SQLite store
    db_prior,       \* the store file as the run found it
    db_committed,   \* the committed contents of the store file
    db,             \* the store as the open connection sees it
    todo,           \* rows the running executemany has still to insert
    failed_phase,   \* 0, or the phase (1..4) whose write raised
    \* ---- folio_split.py: get_folio_names
    composite_name,     \* the parameter name of get_folio_names
    naive_folio_names,  \* the list the loop rewrites in place
    fi,                 \* loop variable of get_folio_names (1-based here)
    fs_pc,              \* position of get_folio_names
    \* ---- vsig.py: the render run
    media,          \* the file names in media/
    multis,         \* equivalents.json: [folio, image] pairs, folio -> composite image
    absent,         \* the required file that is missing, or "none"
    out_folio,      \* the directory folio/: file name -> page
    out_word,       \* the directory word/: file name -> page
    written,        \* history: the paths written by the running render run
    warnings,       \* the folio names of the warnings of the running render run
    run,            \* the number of the render run
    folio_names,    \* folio_names of generate_folio_pages
    ri,             \* loop variable of generate_folio_pages (0-based)
    words_left,     \* the rows of words not yet iterated in generate_word_pages
    r_pc            \* position of the render run

parseVars == <<full_text, all_split, i, folios, app_words, app_folios,
               unique_words, folio_name, processed>>

storeVars == <<db_prior, db_committed, db, todo, failed_phase>>

splitVars == <<composite_name, naive_folio_names, fi, fs_pc>>

renderVars == <<media, multis, absent, out_folio, out_word, written, warnings,
                run, folio_names, ri, words_left, r_pc>>

vars == <<parseVars, pc, storeVars, splitVars, renderVars>>

-----------------------------------------------------------------------------
(* Bounds *)

\* The longest corpus, counted in pieces of CorpusPieces.
MaxPieces == 4

\* The most comma-separated tokens of a composite image name.
MaxTokens == 4

\* The most render runs into one output tree.
MaxRuns == 2

-----------------------------------------------------------------------------
(* Characters and strings *)

NL == "\n"

Digits == {"0", "1", "2", "3", "4", "5", "6", "7", "8", "9"}

Letters == {"a", "b", "c", "f", "g", "j", "p", "r", "v"}

\* \s of the re module, over the characters used here.
Whitespace == {" ", NL}

\* \w of the re module, over the characters used here.
WordChars == Letters \cup Digits \cup {"_"}

RECURSIVE Flatten(_)
\* The concatenation of a sequence of strings.
Flatten(ss) == IF ss = <<>> THEN <<>> ELSE Head(ss) \o Flatten(Tail(ss))

RECURSIVE SkipDigits(_, _)
\* The first position at or after p that holds no digit (\d* from p).
SkipDigits(t, p) ==
    IF p <= Len(t) /\ t[p] \in Digits THEN SkipDigits(t, p + 1) ELSE p

RECURSIVE SkipSpace(_, _)
\* The first position at or after p that holds no whitespace (\s* from p).
SkipSpace(t, p) ==
    IF p <= Len(t) /\ t[p] \in Whitespace THEN SkipSpace(t, p + 1) ELSE p

RECURSIVE LineEnd(_, _)
\* The first position at or after p that holds a newline, or Len(t) + 1.
LineEnd(t, p) ==
    IF p <= Len(t) /\ t[p] # NL THEN LineEnd(t, p + 1) ELSE p

\* str.strip(): leading and trailing whitespace removed.
Strip(t) ==
    LET keep == {k \in 1..Len(t) : t[k] \notin Whitespace}
    IN  IF keep = {} THEN <<>>
        ELSE LET lo == CHOOSE k \in keep : \A m \in keep : k <= m
                 hi == CHOOSE k \in keep : \A m \in keep : k >= m
             IN  SubSeq(t, lo, hi)

RECURSIVE SplitOn(_, _)
\* str.split(sep) for a one-character separator: always at least one piece.
SplitOn(t, sep) ==
    LET at == {k \in 1..Len(t) : t[k] = sep}
    IN  IF at = {} THEN <<t>>
        ELSE LET k == CHOOSE x \in at : \A y \in at : x <= y
             IN  <<SubSeq(t, 1, k - 1)>> \o SplitOn(SubSeq(t, k + 1, Len(t)), sep)

RECURSIVE JoinWith(_, _)
\* sep.join(ss)
JoinWith(ss, sep) ==
    IF ss = <<>> THEN <<>>
    ELSE IF Len(ss) = 1 THEN ss[1]
    ELSE ss[1] \o <<sep>> \o JoinWith(Tail(ss), sep)

\* The set of the elements of a sequence.
Range(s) == {s[k] : k \in 1..Len(s)}

\* list.index(x): the first position of x (1-based here); 0 stands for ValueError.
IndexOf(s, x) ==
    IF x \in Range(s) THEN CHOOSE k \in 1..Len(s) : s[k] = x /\ \A m \in 1..(k - 1) : s[m] # x
    ELSE 0

-----------------------------------------------------------------------------
(* parser.py *)

\* The pattern <f\d+(?:v|r)\d*> matched at position p: the position after the
\* match, or 0 when there is no match at p.
MatchFolioTag(t, p) ==
    IF p + 1 <= Len(t) /\ t[p] = "<" /\ t[p + 1] = "f"
    THEN LET d == SkipDigits(t, p + 2)
         IN  IF d > p + 2 /\ d <= Len(t) /\ t[d] \in {"v", "r"}
             THEN LET e == SkipDigits(t, d + 1)
                  IN  IF e <= Len(t) /\ t[e] = ">" THEN e + 1 ELSE 0
             ELSE 0
    ELSE 0

RECURSIVE ReSplitFrom(_, _, _)
\* re.split with one capturing group, scanning from p with the current piece
\* starting at start: text, tag, text, tag, ..., text.
ReSplitFrom(t, p, start) ==
    IF p > Len(t) THEN <<SubSeq(t, start, Len(t))>>
    ELSE LET e == MatchFolioTag(t, p)
         IN  IF e > 0
             THEN <<SubSeq(t, start, p - 1), SubSeq(t, p, e - 1)>> \o ReSplitFrom(t, e, e)
             ELSE ReSplitFrom(t, p + 1, start)

\* re.split(r"(<f\d+(?:v|r)\d*>)", full_text)[1:]
SplitTags(t) == Tail(ReSplitFrom(t, 1, 1))

\* parse_folio_num: every '<' and '>' removed.
parse_folio_num(tag) == SelectSeq(tag, LAMBDA c : c \notin {"<", ">"})

RECURSIVE MatchParagraphWith(_, _, _)
\* The pattern \s*.+[\n|\w] matched at p with \s* taking s characters, then
\* fewer (backtracking): the position after the match, or 0.
MatchParagraphWith(t, p, s) ==
    LET q == p + s
        e == LineEnd(t, q)
        back == {k \in (q + 1)..(e - 1) : t[k] \in WordChars \cup {"|"}}
    IN  IF e > q /\ e <= Len(t) THEN e + 1
        ELSE IF e > q /\ back # {}
             THEN (CHOOSE k \in back : \A m \in back : k >= m) + 1
        ELSE IF s = 0 THEN 0
        ELSE MatchParagraphWith(t, p, s - 1)

\* The pattern (?<=>)\s*.+[\n|\w] matched at position p.
MatchParagraph(t, p) ==
    IF p >= 2 /\ p <= Len(t) /\ t[p - 1] = ">"
    THEN MatchParagraphWith(t, p, SkipSpace(t, p) - p)
    ELSE 0

RECURSIVE FindParagraphs(_, _)
\* re.findall of the paragraph pattern, scanning from p.
FindParagraphs(t, p) ==
    IF p > Len(t) THEN <<>>
    ELSE LET e == MatchParagraph(t, p)
         IN  IF e > 0 THEN <<SubSeq(t, p, e - 1)>> \o FindParagraphs(t, e)
             ELSE FindParagraphs(t, p + 1)

\* clean_contents: the matches stripped, the empty ones dropped.
clean_contents(folio_text) ==
    LET found == FindParagraphs(folio_text, 1)
        stripped == [k \in 1..Len(found) |-> Strip(found[k])]
    IN  SelectSeq(stripped, LAMBDA x : x # <<>>)

\* words of parse_word_appearances: ('.'.join(cleaned_contents)).split('.')
WordsOf(cleaned_contents) == SplitOn(JoinWith(cleaned_contents, "."), ".")

\* folios[name] = contents on a dict that keeps insertion order: an existing
\* key keeps its place and takes the new value.
DictSet(d, name, contents) ==
    IF \E k \in 1..Len(d) : d[k].name = name
    THEN [k \in 1..Len(d) |->
            IF d[k].name = name THEN [name |-> name, paragraphs |-> contents] ELSE d[k]]
    ELSE Append(d, [name |-> name, paragraphs |-> contents])

-----------------------------------------------------------------------------
(* Corpora *)

TagF1r == <<"<", "f", "1", "r", ">">>
TagF2v == <<"<", "f", "2", "v", ">">>
\* not a folio boundary: no v or r
TagBad == <<"<", "f", "1", ">">>
LineAB == <<">", "a", ".", "b", NL>>
\* two lines, the word b in both
LineBC == <<">", "b", ".", "c", NL, ">", "b", NL>>
\* a blank line
LineBlank == <<">", " ", NL>>
\* a line with a leading delimiter
LineDot == <<">", ".", "a", NL>>

CorpusPieces == {TagF1r, TagF2v, TagBad, LineAB, LineBC, LineBlank, LineDot}

\* The pieces of the corpora handed on to the store.
StorePieces == {TagF1r, TagF2v, LineAB, LineBC, LineDot}

RECURSIVE PieceSeqs(_, _)
\* The sequences of at most n pieces.
PieceSeqs(pieces, n) ==
    IF n = 0 THEN {<<>>}
    ELSE LET shorter == PieceSeqs(pieces, n - 1)
         IN  shorter \cup {Append(s, x) : s \in {y \in shorter : Len(y) = n - 1}, x \in pieces}

Corpora == {Flatten(s) : s \in PieceSeqs(CorpusPieces, MaxPieces)}

StoreCorpora == {Flatten(s) : s \in PieceSeqs(StorePieces, MaxPieces)}

-----------------------------------------------------------------------------
(* The store: four tables, each a set of rows with an integer primary key *)

EmptyStore == [Folio |-> {}, Paragraph |-> {}, Word |-> {}, Appears |-> {}]

\* No file of a directory.
NoFiles == [f \in {} |-> <<>>]

\* vsig.py is not running.
RenderOff ==
    /\ media = {}
    /\ multis = {}
    /\ absent = "none"
    /\ out_folio = NoFiles
    /\ out_word = NoFiles
    /\ written = {}
    /\ warnings = <<>>
    /\ run = 0
    /\ folio_names = <<>>
    /\ ri = 0
    /\ words_left = {}
    /\ r_pc = "off"

\* get_folio_names is not running.
SplitOff ==
    /\ composite_name = <<>>
    /\ naive_folio_names = <<>>
    /\ fi = 0
    /\ fs_pc = "off"

-----------------------------------------------------------------------------
(* split_folios, one action per step *)

InitParse ==
    /\ full_text \in Corpora
    /\ all_split = <<>>
    /\ i = 0
    /\ folios = <<>>
    /\ app_words = <<>>
    /\ app_folios = <<>>
    /\ unique_words = {}
    /\ folio_name = <<>>
    /\ processed = <<>>
    /\ pc = "start"
    /\ db_prior = EmptyStore
    /\ db_committed = EmptyStore
    /\ db = EmptyStore
    /\ todo = <<>>
    /\ failed_phase = 0
    /\ SplitOff
    /\ RenderOff

\* line 155-156: the split and the empty dict
SplitFoliosStart ==
    /\ pc = "start"
    /\ all_split' = SplitTags(full_text)
    /\ i' = 0
    /\ pc' = "split"
    /\ UNCHANGED <<full_text, folios, app_words, app_folios, unique_words,
                   folio_name, processed, storeVars, splitVars, renderVars>>

\* lines 157-162 and 133-134: one iteration of the for loop up to the while loop
SplitFoliosIter ==
    /\ pc = "split"
    /\ i < Len(all_split)
    /\ LET cleaned_contents == clean_contents(all_split[i + 2])
           name == parse_folio_num(all_split[i + 1])
       IN  /\ folios' = DictSet(folios, name, cleaned_contents)
           /\ folio_name' = name
           /\ unique_words' = Range(WordsOf(cleaned_contents))
           /\ processed' = Append(processed, [name |-> name, paragraphs |-> cleaned_contents])
    /\ pc' = "index"
    /\ UNCHANGED <<full_text, all_split, i, app_words, app_folios, storeVars, splitVars, renderVars>>

\* The index after one word has been recorded, the folio put at the front of
\* the list of a word already known.
RecordAppearance_Prepend(words, flists, word, name) ==
    LET word_index == IndexOf(words, word)
    IN  IF word_index # 0
        THEN [words |-> words,
              folios |-> [flists EXCEPT ![word_index] = <<name>> \o @]]
        ELSE [words |-> Append(words, word),
              folios |-> Append(flists, <<name>>)]

\* The index after one word of the folio has been recorded (lines 137-143).
RecordAppearance(words, flists, word, name) ==
    LET word_index == IndexOf(words, word)
    IN  IF word_index # 0
        THEN [words |-> words,
              folios |-> [flists EXCEPT ![word_index] = Append(@, name)]]
        ELSE [words |-> Append(words, word),
              folios |-> Append(flists, <<name>>)]

\* lines 135-143: one turn of the while loop; set.pop() takes any element
ParseWordPop ==
    /\ pc = "index"
    /\ \E word \in unique_words :
         LET r == RecordAppearance(app_words, app_folios, word, folio_name)
         IN  /\ app_words' = r.words
             /\ app_folios' = r.folios
             /\ unique_words' = unique_words \ {word}
             /\ pc' = IF unique_words \ {word} = {} THEN "split" ELSE "index"
             /\ i' = IF unique_words \ {word} = {} THEN i + 2 ELSE i
    /\ UNCHANGED <<full_text, all_split, folios, folio_name, processed, storeVars, splitVars, renderVars>>

\* line 164
SplitFoliosReturn ==
    /\ pc = "split"
    /\ i >= Len(all_split)
    /\ pc' = "parsed"
    /\ UNCHANGED <<parseVars, storeVars, splitVars, renderVars>>

NextParse == SplitFoliosStart \/ SplitFoliosIter \/ ParseWordPop \/ SplitFoliosReturn

SpecParse == InitParse /\ [][NextParse]_vars

-----------------------------------------------------------------------------
(* insert_values: four executemany phases, each followed by a commit *)

Tables == <<"Folio", "Paragraph", "Word", "Appears">>

PhaseOf(p) ==
    CASE p = "insert_folios" -> 1
      [] p = "insert_paragraphs" -> 2
      [] p = "insert_words" -> 3
      [] p = "insert_appearances" -> 4
      [] OTHER -> 0

InsertPcs == {"insert_folios", "insert_paragraphs", "insert_words", "insert_appearances"}

\* insert_folios: one (folioName,) tuple per key of the dict, in key order.
FolioRows(folios_data) ==
    [k \in 1..Len(folios_data) |-> [folioName |-> folios_data[k].name]]

\* insert_paragraphs: for every folio in key order, one (folioName, paragraph)
\* tuple per paragraph in list order.
ParagraphRows(folios_data) ==
    Flatten([k \in 1..Len(folios_data) |->
                [m \in 1..Len(folios_data[k].paragraphs) |->
                    [folioName |-> folios_data[k].name,
                     paragraph |-> folios_data[k].paragraphs[m]]]])

\* insert_words: one (wordName,) tuple per word of appearances.words.
WordRows(words) == [k \in 1..Len(words) |-> [wordName |-> words[k]]]

\* The order of a folio list as insert_appearances emits it: reversed.
AppearanceRows_Reversed(words, flists) ==
    Flatten([k \in 1..Len(words) |->
                [m \in 1..Len(flists[k]) |->
                    [wordName |-> words[k],
                     folioName |-> flists[k][Len(flists[k]) + 1 - m]]]])

\* insert_appearances: for every word in list order, one (wordName, folioName)
\* tuple per folio of its list in list order.
AppearanceRows(words, flists) ==
    Flatten([k \in 1..Len(words) |->
                [m \in 1..Len(flists[k]) |->
                    [wordName |-> words[k], folioName |-> flists[k][m]]]])

\* The rows the executemany of a phase is handed.
RowsOfPhase(k) ==
    CASE k = 1 -> FolioRows(folios)
      [] k = 2 -> ParagraphRows(folios)
      [] k = 3 -> WordRows(app_words)
      [] k = 4 -> AppearanceRows(app_words, app_folios)

\* The integer primary key SQLite gives a new row: one more than the largest.
NextId(table) ==
    IF table = {} THEN 1
    ELSE 1 + (CHOOSE n \in {r.id : r \in table} : \A r \in table : r.id <= n)

\* The UNIQUE constraints of the schema: Folio.folioName and Word.wordName.
ViolatesUnique(store, k, row) ==
    \/ k = 1 /\ \E r \in store.Folio : r.folioName = row.folioName
    \/ k = 3 /\ \E r \in store.Word : r.wordName = row.wordName

\* One INSERT of an executemany: the row with its new primary key.
InsertRow(store, k, row) ==
    LET table == store[Tables[k]]
        withId == [x \in (DOMAIN row) \cup {"id"} |->
                      IF x = "id" THEN NextId(table) ELSE row[x]]
    IN  [store EXCEPT ![Tables[k]] = table \cup {withId}]

\* What the store file holds after the with block is left by an exception
\* and nothing of the open transaction is undone.
Rollback_KeepsOpenTransaction(seen, committed) == seen

\* What the store file holds after the with block is left by an exception:
\* the connection rolls the open transaction back.
Rollback(seen, committed) == committed

\* lines 90-94: connect, the pragmas, and the tuples of insert_folios
InsertValuesStart ==
    /\ pc = "parsed"
    /\ pc' = "insert_folios"
    /\ todo' = RowsOfPhase(1)
    /\ UNCHANGED <<parseVars, db_prior, db_committed, db, failed_phase, splitVars, renderVars>>

\* one INSERT of the running executemany succeeds
ExecuteInsert ==
    /\ pc \in InsertPcs
    /\ todo # <<>>
    /\ ~ViolatesUnique(db, PhaseOf(pc), Head(todo))
    /\ db' = InsertRow(db, PhaseOf(pc), Head(todo))
    /\ todo' = Tail(todo)
    /\ UNCHANGED <<parseVars, pc, db_prior, db_committed, failed_phase, splitVars, renderVars>>

\* one INSERT of the running executemany raises (a constraint violation, or
\* any other sqlite3.Error): the exception leaves the with block of line 90
ExecuteInsertRaises ==
    /\ pc \in InsertPcs
    /\ todo # <<>>
    /\ failed_phase' = PhaseOf(pc)
    /\ db_committed' = Rollback(db, db_committed)
    /\ db' = Rollback(db, db_committed)
    /\ pc' = "aborted"
    /\ UNCHANGED <<parseVars, db_prior, todo, splitVars, renderVars>>

\* db.commit() after a phase (lines 95, 97, 99, 101), then the tuples of the
\* next phase
CommitPhase ==
    /\ pc \in InsertPcs
    /\ todo = <<>>
    /\ db_committed' = db
    /\ IF PhaseOf(pc) = 4
       THEN /\ pc' = "stored"
            /\ todo' = <<>>
       ELSE /\ pc' = CHOOSE p \in InsertPcs : PhaseOf(p) = PhaseOf(pc) + 1
            /\ todo' = RowsOfPhase(PhaseOf(pc) + 1)
    /\ UNCHANGED <<parseVars, db_prior, db, failed_phase, splitVars, renderVars>>

NextStore == InsertValuesStart \/ ExecuteInsert \/ ExecuteInsertRaises \/ CommitPhase

\* Stores an earlier parse run left behind (the output file was not removed).
PriorF3r ==
    [Folio |-> {[id |-> 1, folioName |-> <<"f", "3", "r">>]},
     Paragraph |-> {[id |-> 1, folioName |-> <<"f", "3", "r">>, paragraph |-> <<"c">>]},
     Word |-> {[id |-> 1, wordName |-> <<"c">>]},
     Appears |-> {[id |-> 1, wordName |-> <<"c">>, folioName |-> <<"f", "3", "r">>]}]

PriorF1r ==
    [Folio |-> {[id |-> 1, folioName |-> <<"f", "1", "r">>]},
     Paragraph |-> {[id |-> 1, folioName |-> <<"f", "1", "r">>, paragraph |-> <<"g">>]},
     Word |-> {[id |-> 1, wordName |-> <<"g">>]},
     Appears |-> {[id |-> 1, wordName |-> <<"g">>, folioName |-> <<"f", "1", "r">>]}]

PriorStores == {EmptyStore, PriorF3r, PriorF1r}

InitStore ==
    /\ full_text \in StoreCorpora
    /\ all_split = <<>>
    /\ i = 0
    /\ folios = <<>>
    /\ app_words = <<>>
    /\ app_folios = <<>>
    /\ unique_words = {}
    /\ folio_name = <<>>
    /\ processed = <<>>
    /\ pc = "start"
    /\ db_prior \in PriorStores
    /\ db_committed = db_prior
    /\ db = db_prior
    /\ todo = <<>>
    /\ failed_phase = 0
    /\ SplitOff
    /\ RenderOff

SpecStore == InitStore /\ [][NextParse \/ NextStore]_vars

-----------------------------------------------------------------------------
(* folio_split.py: get_folio_names *)

\* t starts with the string pre.
StartsWith(t, pre) == Len(t) >= Len(pre) /\ SubSeq(t, 1, Len(pre)) = pre

\* t ends with the string suf.
EndsWith(t, suf) ==
    Len(t) >= Len(suf) /\ SubSeq(t, Len(t) - Len(suf) + 1, Len(t)) = suf

RECURSIVE ReplaceAll(_, _, _)
\* str.replace(old, new) for a non-empty old: every occurrence, left to right.
ReplaceAll(t, old, new) ==
    IF Len(t) < Len(old) THEN t
    ELSE IF StartsWith(t, old)
         THEN new \o ReplaceAll(SubSeq(t, Len(old) + 1, Len(t)), old, new)
         ELSE <<Head(t)>> \o ReplaceAll(Tail(t), old, new)

DotJpg == <<".", "j", "p", "g">>

\* valid_name_pattern.match: f\d+[v|r]]\d? at the start of the token (the
\* pattern as written asks for a literal ']' after the side letter).
MatchesValidName(t) ==
    /\ Len(t) >= 1 /\ t[1] = "f"
    /\ LET d == SkipDigits(t, 2)
       IN  /\ d > 2
           /\ d + 1 <= Len(t)
           /\ t[d] \in {"v", "|", "r"}
           /\ t[d + 1] = "]"

\* The matches of f\d+ that start at a position of t.
FolioNumberStarts(t) ==
    {p \in 1..Len(t) : t[p] = "f" /\ SkipDigits(t, p + 1) > p + 1}

\* The matches of f\d+[v|r] that start at a position of t.
FolioSideStarts(t) ==
    {p \in FolioNumberStarts(t) :
        LET d == SkipDigits(t, p + 1) IN d <= Len(t) /\ t[d] \in {"v", "|", "r"}}

\* findall(r'(f\d+[v|r])', t): the first match, as [found, text].
FirstFolioSide(t) ==
    IF FolioSideStarts(t) = {} THEN [found |-> FALSE, text |-> <<>>]
    ELSE LET p == CHOOSE x \in FolioSideStarts(t) : \A y \in FolioSideStarts(t) : x <= y
         IN  [found |-> TRUE, text |-> SubSeq(t, p, SkipDigits(t, p + 1))]

\* The first match of f\d+ taken together with the side letter after it.
FirstFolioNumber_WithSide(t) ==
    IF FolioNumberStarts(t) = {} THEN [found |-> FALSE, text |-> <<>>]
    ELSE LET p == CHOOSE x \in FolioNumberStarts(t) : \A y \in FolioNumberStarts(t) : x <= y
         IN  [found |-> TRUE, text |-> SubSeq(t, p, SkipDigits(t, p + 1))]

\* findall(r'(f\d+)', t): the first match, as [found, text].
FirstFolioNumber(t) ==
    IF FolioNumberStarts(t) = {} THEN [found |-> FALSE, text |-> <<>>]
    ELSE LET p == CHOOSE x \in FolioNumberStarts(t) : \A y \in FolioNumberStarts(t) : x <= y
         IN  [found |-> TRUE, text |-> SubSeq(t, p, SkipDigits(t, p + 1) - 1)]

\* naive_folio_names[i - 1] with Python's indexing: at the first token the
\* index -1 is the last element of the list.
PrecedingName(names, k) == IF k = 1 THEN names[Len(names)] ELSE names[k - 1]

\* lines 35-36: the extension removed from a token that ends with it
WithoutJpg(t) == IF EndsWith(t, DotJpg) THEN ReplaceAll(t, DotJpg, <<>>) ELSE t

\* lines 37-38 on a token t with the preceding name prev: [ok, text], ok false
\* for the IndexError of findall(...)[0]
WithFolioNumber(t, prev) ==
    IF Len(t) >= 1 /\ t[1] \in {"v", "r"}
    THEN LET m == FirstFolioNumber(prev)
         IN  [ok |-> m.found, text |-> m.text \o t]
    ELSE [ok |-> TRUE, text |-> t]

\* lines 39-43 on a token t with the preceding name prev: [ok, text]
WithFolioPrefix(t, prev) ==
    IF Len(t) >= 1 /\ t[1] = "f" THEN [ok |-> TRUE, text |-> t]
    ELSE IF "v" \in Range(t) \/ "r" \in Range(t) THEN [ok |-> TRUE, text |-> <<"f">> \o t]
    ELSE LET m == FirstFolioSide(prev)
         IN  [ok |-> m.found, text |-> m.text \o t]

\* lines 32-43 for the token at position k of the list: [ok, text]
RewriteToken(names, k) ==
    LET stripped == WithoutJpg(Strip(names[k]))
        numbered == WithFolioNumber(stripped, PrecedingName(names, k))
    IN  IF ~numbered.ok THEN numbered
        ELSE WithFolioPrefix(numbered.text, PrecedingName(names, k))

\* The tokens of the composite names.
NameTokens ==
    { <<"f", "7", "1", "v">>,
      <<" ", "f", "7", "2", "r", "1">>,
      <<"r", "2">>,
      <<"3">>,
      <<"3", ".", "j", "p", "g">>,
      <<"v", ".", "j", "p", "g">>,
      <<"7", "2", "r">>,
      <<"f", "7", "v", "]">> }

RECURSIVE TokenSeqs(_)
\* The sequences of one token to n tokens.
TokenSeqs(n) ==
    IF n = 1 THEN {<<x>> : x \in NameTokens}
    ELSE LET shorter == TokenSeqs(n - 1)
         IN  shorter \cup {Append(s, x) : s \in {y \in shorter : Len(y) = n - 1}, x \in NameTokens}

CompositeNames == {JoinWith(s, ",") : s \in TokenSeqs(MaxTokens)}

\* line 30
GetFolioNamesSplit ==
    /\ fs_pc = "start"
    /\ naive_folio_names' = SplitOn(composite_name, ",")
    /\ fi' = 1
    /\ fs_pc' = "loop"
    /\ UNCHANGED <<composite_name, parseVars, pc, storeVars, renderVars>>

\* lines 32-34: the token matches valid_name_pattern and is left as it is
GetFolioNamesContinue ==
    /\ fs_pc = "loop"
    /\ fi <= Len(naive_folio_names)
    /\ MatchesValidName(Strip(naive_folio_names[fi]))
    /\ fi' = fi + 1
    /\ UNCHANGED <<composite_name, naive_folio_names, fs_pc, parseVars, pc, storeVars, renderVars>>

\* lines 32-44: the token is rewritten and stored back
GetFolioNamesRewrite ==
    /\ fs_pc = "loop"
    /\ fi <= Len(naive_folio_names)
    /\ ~MatchesValidName(Strip(naive_folio_names[fi]))
    /\ RewriteToken(naive_folio_names, fi).ok
    /\ naive_folio_names' =
          [naive_folio_names EXCEPT ![fi] = RewriteToken(naive_folio_names, fi).text]
    /\ fi' = fi + 1
    /\ UNCHANGED <<composite_name, fs_pc, parseVars, pc, storeVars, renderVars>>

\* lines 38, 43: findall(...)[0] finds nothing in the preceding name, IndexError
GetFolioNamesRaise ==
    /\ fs_pc = "loop"
    /\ fi <= Len(naive_folio_names)
    /\ ~MatchesValidName(Strip(naive_folio_names[fi]))
    /\ ~RewriteToken(naive_folio_names, fi).ok
    /\ fs_pc' = "raised"
    /\ UNCHANGED <<composite_name, naive_folio_names, fi, parseVars, pc, storeVars, renderVars>>

\* line 45
GetFolioNamesReturn ==
    /\ fs_pc = "loop"
    /\ fi > Len(naive_folio_names)
    /\ fs_pc' = "returned"
    /\ UNCHANGED <<composite_name, naive_folio_names, fi, parseVars, pc, storeVars, renderVars>>

NextSplit ==
    \/ GetFolioNamesSplit
    \/ GetFolioNamesContinue
    \/ GetFolioNamesRewrite
    \/ GetFolioNamesRaise
    \/ GetFolioNamesReturn

InitSplit ==
    /\ composite_name \in CompositeNames
    /\ naive_folio_names = <<>>
    /\ fi = 0
    /\ fs_pc = "start"
    /\ full_text = <<>>
    /\ all_split = <<>>
    /\ i = 0
    /\ folios = <<>>
    /\ app_words = <<>>
    /\ app_folios = <<>>
    /\ unique_words = {}
    /\ folio_name = <<>>
    /\ processed = <<>>
    /\ pc = "off"
    /\ db_prior = EmptyStore
    /\ db_committed = EmptyStore
    /\ db = EmptyStore
    /\ todo = <<>>
    /\ failed_phase = 0
    /\ RenderOff

SpecSplit == InitSplit /\ [][NextSplit]_vars

-----------------------------------------------------------------------------
(* Reading the store the way vsig.py does *)

RECURSIVE OrderById(_)
\* ORDER BY the integer primary key.
OrderById(rows) ==
    IF rows = {} THEN <<>>
    ELSE LET first == CHOOSE r \in rows : \A x \in rows : r.id <= x.id
         IN  <<first>> \o OrderById(rows \ {first})

\* SELECT folioName FROM Folio ORDER BY folioID
SelectFolioNames(store) ==
    LET rows == OrderById(store.Folio)
    IN  [k \in 1..Len(rows) |-> rows[k].folioName]

\* SELECT paragraph FROM Paragraph WHERE folioName = ? ORDER BY paragraphID
SelectParagraphs(store, name) ==
    LET rows == OrderById({r \in store.Paragraph : r.folioName = name})
    IN  [k \in 1..Len(rows) |-> rows[k].paragraph]

\* SELECT folioName FROM Appears WHERE wordName = ? ORDER BY appearanceID
SelectAppearances(store, word) ==
    LET rows == OrderById({r \in store.Appears : r.wordName = word})
    IN  [k \in 1..Len(rows) |-> rows[k].folioName]

\* SELECT * FROM Word: the set of the word names
SelectWords(store) == {r.wordName : r \in store.Word}

-----------------------------------------------------------------------------
(* vsig.py: pages are sequences of symbols, a symbol being one character or  *)
(* one piece of fixed markup                                                 *)

\* t holds the string pat somewhere.
ContainsSeq(t, pat) ==
    \E p \in 1..(Len(t) - Len(pat) + 1) : SubSeq(t, p, p + Len(pat) - 1) = pat

\* lines 20-25: the numbers of the folios known to be missing
MissingNumbers ==
    { <<"1", "2">>, <<"5", "9">>, <<"6", "0">>, <<"6", "1">>, <<"6", "2">>,
      <<"6", "3">>, <<"6", "4">>, <<"7", "4">>, <<"9", "1">>, <<"9", "2">>,
      <<"9", "7">>, <<"9", "8">>, <<"1", "0", "9">>, <<"1", "1", "0">> }

\* generate_missing_folios: f<number>v and f<number>r for every number
missing_folios ==
    {<<"f">> \o n \o <<"v">> : n \in MissingNumbers} \cup
    {<<"f">> \o n \o <<"r">> : n \in MissingNumbers}

\* lines 32-40
missing_card == <<"<div class=\"card error large\">Missing Image!</div>">>

\* lines 42-46: the image block, the placeholder image name inside it
folio_image ==
    <<"<div class=\"folio_image\"><img src=\"../media/", "portrait.jpg", "\"/></div>">>

\* template_commons: header, footer and the two explanations
header == <<"<header/>">>
footer == <<"<footer/>">>
explanation_word == <<"<p>words</p>">>
explanation_folio == <<"<p>folios</p>">>

\* The fixed links of the folio templates to the first and the last folio.
FirstFolioLink == <<"<a href=\"f1r.html\"><<</a>">>
LastFolioLink == <<"<a href=\"f116v.html\">>></a>">>

\* The text only templates/missing_folio.html holds.
MissingFolioNotice == "<p>This folio is missing from the manuscript.</p>"

\* templates/folio.html
FolioTemplateFile ==
    <<"{%header%}", "<h1>", "{%folioName%}", "</h1>">> \o FirstFolioLink
      \o <<"{%before%}", "{%after%}">> \o LastFolioLink \o folio_image
      \o <<"{%contents%}", "{%footer%}">>

\* templates/missing_folio.html
MissingFolioTemplateFile ==
    <<"{%header%}", "<h1>", "{%folioName%}", "</h1>", MissingFolioNotice>>
      \o FirstFolioLink \o <<"{%before%}", "{%after%}">> \o LastFolioLink
      \o <<"{%contents%}", "{%footer%}">>

\* templates/word.html
WordTemplateFile ==
    <<"{%header%}", "<h1>", "{%wordName%}", "</h1>", "{%wordAppearanceCount%}",
      "{%appearances%}", "{%footer%}">>

\* templates/general_index.html
GeneralIndexTemplateFile ==
    <<"{%header%}", "<h1>", "{%page-title%}", "</h1>", "{%explanation%}",
      "{%list_section%}", "{%footer%}">>

\* set_template_commons
set_template_commons(template) ==
    ReplaceAll(ReplaceAll(template, <<"{%footer%}">>, footer), <<"{%header%}">>, header)

RECURSIVE replace_templates(_, _)
\* replace_templates: the placeholders of the dict replaced one after the
\* other, in the order of the dict, each in the page the one before produced.
replace_templates(replace_dict, template) ==
    IF replace_dict = <<>> THEN template
    ELSE replace_templates(
            Tail(replace_dict),
            ReplaceAll(template, <<"{%" \o Head(replace_dict).key \o "%}">>,
                       Head(replace_dict).value))

Html == <<".", "h", "t", "m", "l">>

\* get_list: the HTML list of the elements, each a link
get_list(list_, path, extension) ==
    <<"<ul>">>
      \o JoinWith([k \in 1..Len(list_) |->
                      <<"<li> <a href=\"">> \o path \o list_[k] \o extension \o <<"\">">>
                        \o ReplaceAll(list_[k], Html, <<>>) \o <<"</a></li>">>],
                  NL)
      \o <<"</ul>">>

\* line 112: the link of one word of a paragraph
WordLink(word) ==
    <<"<a class=\"voynich-word\" href=\"../word/">> \o word \o Html \o <<"\">">>
      \o word \o <<"</a>">>

\* generate_folio_div: the numbered paragraphs, every word a link
generate_folio_div(paragraphs) ==
    Flatten([k \in 1..Len(paragraphs) |->
                <<"<sup>", ToString(k), "</sup>">>
                  \o JoinWith([m \in 1..Len(SplitOn(paragraphs[k], ".")) |->
                                  WordLink(SplitOn(paragraphs[k], ".")[m])], " ")
                  \o <<"</br>">>])

\* None of Python.
None == <<>>

\* line 175 with the folio a step further on in place of the one before
FolioBefore_OffByOne(names, k) == IF k = 0 THEN None ELSE names[k + 1]

\* line 175: folio_before for the folio at 0-based position k
FolioBefore(names, k) == IF k = 0 THEN None ELSE names[k]

\* line 176: folio_after for the folio at 0-based position k
FolioAfter(names, k) == IF k = Len(names) - 1 THEN None ELSE names[k + 2]

BeforeLink(target) ==
    <<"<a id=\"before_link\" href=\"">> \o target \o Html \o <<"\"><b><</b></a>">>

AfterLink(target) ==
    <<"<a id=\"after_link\" href=\"">> \o target \o Html \o <<"\"><b>></b></a>">>

\* lines 137-139: the image file name of a folio
ImageName(name, equivalents) ==
    IF \E e \in equivalents : e.folio = name
    THEN (CHOOSE e \in equivalents : e.folio = name).image
    ELSE name \o DotJpg

\* lines 140-142 when a missing image always gives the notice and the warning
ImageBranch_WarnsForGaps(name, medias, equivalents) ==
    IF ImageName(name, equivalents) \in medias THEN "image" ELSE "notice"

\* lines 140-142: which branch generate_folio_page takes for the image
ImageBranch(name, medias, equivalents) ==
    IF ImageName(name, equivalents) \in medias THEN "image"
    ELSE IF name \notin missing_folios THEN "notice"
    ELSE "neither"

\* lines 177-180: the template generate_folio_pages hands to generate_folio_page
TemplateFor(name) ==
    IF name \in missing_folios THEN set_template_commons(MissingFolioTemplateFile)
    ELSE set_template_commons(FolioTemplateFile)

\* lines 127-144: the page generate_folio_page writes
FolioPage(name, folio_paragraphs, template, folio_before, folio_after, medias, equivalents) ==
    LET p1 == ReplaceAll(template, <<"{%folioName%}">>, name)
        p2 == ReplaceAll(p1, <<"{%contents%}">>, folio_paragraphs)
        p3 == IF folio_before # None
              THEN ReplaceAll(p2, <<"{%before%}">>, BeforeLink(folio_before))
              ELSE ReplaceAll(ReplaceAll(p2, <<"{%before%}">>, <<>>), FirstFolioLink, <<>>)
        p4 == IF folio_after # None
              THEN ReplaceAll(p3, <<"{%after%}">>, AfterLink(folio_after))
              ELSE ReplaceAll(ReplaceAll(p3, <<"{%after%}">>, <<>>), LastFolioLink, <<>>)
        branch == ImageBranch(name, medias, equivalents)
    IN  IF branch = "image"
        THEN ReplaceAll(p4, <<"portrait.jpg">>, ImageName(name, equivalents))
        ELSE IF branch = "notice" THEN ReplaceAll(p4, folio_image, missing_card)
        ELSE p4

\* lines 73-78: the page generate_word_page writes
WordPage(word, store, template) ==
    LET p1 == ReplaceAll(template, <<"{%wordName%}">>, word)
        appearances == SelectAppearances(store, word)
        p2 == ReplaceAll(p1, <<"{%wordAppearanceCount%}">>, <<ToString(Len(appearances))>>)
    IN  ReplaceAll(p2, <<"{%appearances%}">>,
                   get_list(appearances, <<"../folio/">>, Html))

\* lines 219-224 and 228-233: an index page
IndexPage(title, list_section, explanation) ==
    replace_templates(
        << [key |-> "page-title", value |-> <<title>>],
           [key |-> "list_section", value |-> list_section],
           [key |-> "explanation", value |-> explanation] >>,
        set_template_commons(GeneralIndexTemplateFile))

IndexFile == <<"i", "n", "d", "e", "x">> \o Html

\* open(path, "w") and write: the file created or replaced
WriteFile(dir, file, page) ==
    [f \in (DOMAIN dir) \cup {file} |-> IF f = file THEN page ELSE dir[f]]

\* The sequences that hold every element of S once.
OrdersOf(S) ==
    {s \in [1..Cardinality(S) -> S] : \A a, b \in 1..Cardinality(S) : s[a] = s[b] => a = b}

\* The orders os.listdir may return the names of a directory in.
ListDirOrders(dir) == OrdersOf(DOMAIN dir)

-----------------------------------------------------------------------------
(* The inputs of a render run *)

F1r == <<"f", "1", "r">>
F2v == <<"f", "2", "v">>
\* a folio of the known gaps
F12v == <<"f", "1", "2", "v">>

RenderFolioNames == {F1r, F2v, F12v}

\* Two folios whose words are spelled like placeholder markers of the templates.
F3r == <<"f", "3", "r">>
F3v == <<"f", "3", "v">>

MarkerFolioNames == {F3r, F3v}

\* The paragraphs the store holds for a folio.
ParagraphsFor(f) ==
    CASE f = F1r -> << <<"a", ".", "b">> >>
      [] f = F2v -> << <<"b", ".", "a">>, <<"b">> >>
      [] f = F3r -> << <<"{%after%}", ".", "{%appearances%}">> >>
      [] f = F3v -> << <<"{%explanation%}">> >>
      [] OTHER -> << <<"a">> >>

RECURSIVE IndexWords(_, _, _)
\* parse_word_appearances over the words of one folio, taken in text order.
IndexWords(idx, words, f) ==
    IF words = <<>> THEN idx
    ELSE IndexWords(
            RecordAppearance(idx.words, idx.folios, Head(words), f),
            SelectSeq(Tail(words), LAMBDA w : w # Head(words)), f)

RECURSIVE IndexFolios(_, _)
\* split_folios over folios already cleaned.
IndexFolios(idx, folios_data) ==
    IF folios_data = <<>> THEN idx
    ELSE IndexFolios(
            IndexWords(idx, WordsOf(Head(folios_data).paragraphs), Head(folios_data).name),
            Tail(folios_data))

RECURSIVE InsertAll(_, _, _)
\* One executemany without a failure.
InsertAll(store, k, rows) ==
    IF rows = <<>> THEN store
    ELSE InsertAll(InsertRow(store, k, Head(rows)), k, Tail(rows))

\* The store parser.py leaves for the folios fs, in this order.
StoreOfFolios(fs) ==
    LET folios_data == [k \in 1..Len(fs) |-> [name |-> fs[k], paragraphs |-> ParagraphsFor(fs[k])]]
        idx == IndexFolios([words |-> <<>>, folios |-> <<>>], folios_data)
        s1 == InsertAll(EmptyStore, 1, FolioRows(folios_data))
        s2 == InsertAll(s1, 2, ParagraphRows(folios_data))
        s3 == InsertAll(s2, 3, WordRows(idx.words))
    IN  InsertAll(s3, 4, AppearanceRows(idx.words, idx.folios))

\* The sequences without repetition of elements of S.
SeqsWithoutRepetition(S) ==
    UNION {{s \in [1..n -> S] : \A a, b \in 1..n : s[a] = s[b] => a = b} :
              n \in 0..Cardinality(S)}

RenderStores == {StoreOfFolios(fs) : fs \in SeqsWithoutRepetition(RenderFolioNames)}

\* The stores of the folios whose words are spelled like markers.
MarkerStores == {StoreOfFolios(fs) : fs \in SeqsWithoutRepetition(MarkerFolioNames)}

\* A composite image of media/ and the equivalence that names it for f2v.
CompositeImage == <<"f", "2", "v", ",", "3", "r">> \o DotJpg

EquivalenceMaps == {{}, {[folio |-> F2v, image |-> CompositeImage]}}

MediaSets ==
    {singles \cup composites :
        singles \in SUBSET {F1r \o DotJpg, F12v \o DotJpg},
        composites \in {{}, {CompositeImage}}}

RequiredFiles == {"folio", "missing_folio", "word", "general_index", "store"}

-----------------------------------------------------------------------------
(* The render run of vsig.py, one action per step *)

InitRender ==
    /\ full_text = <<>>
    /\ all_split = <<>>
    /\ i = 0
    /\ folios = <<>>
    /\ app_words = <<>>
    /\ app_folios = <<>>
    /\ unique_words = {}
    /\ folio_name = <<>>
    /\ processed = <<>>
    /\ pc = "off"
    /\ db_prior = EmptyStore
    /\ db_committed \in RenderStores
    /\ db = db_committed
    /\ todo = <<>>
    /\ failed_phase = 0
    /\ SplitOff
    /\ media \in MediaSets
    /\ multis \in EquivalenceMaps
    /\ absent \in RequiredFiles \cup {"none"}
    /\ out_folio = NoFiles
    /\ out_word = NoFiles
    /\ written = {}
    /\ warnings = <<>>
    /\ run = 1
    /\ folio_names = <<>>
    /\ ri = 0
    /\ words_left = {}
    /\ r_pc = "start"

notRender == <<parseVars, pc, storeVars, splitVars>>

\* lines 161-170: the two templates are read and the folio names selected
GenerateFolioPagesOpen ==
    /\ r_pc = "start"
    /\ absent \notin {"folio", "missing_folio", "store"}
    /\ folio_names' = SelectFolioNames(db_committed)
    /\ ri' = 0
    /\ r_pc' = "folio_loop"
    /\ UNCHANGED <<notRender, media, multis, absent, out_folio, out_word, written,
                   warnings, run, words_left>>

\* lines 161-169: a template cannot be opened, or the store has no table Folio
GenerateFolioPagesRaises ==
    /\ r_pc = "start"
    /\ absent \in {"folio", "missing_folio", "store"}
    /\ r_pc' = "fatal"
    /\ UNCHANGED <<notRender, media, multis, absent, out_folio, out_word, written,
                   warnings, run, folio_names, ri, words_left>>

\* lines 171-180 and generate_folio_page: one folio page is written
GenerateFolioPage ==
    /\ r_pc = "folio_loop"
    /\ ri < Len(folio_names)
    /\ LET f == folio_names[ri + 1]
           paragraph_text == generate_folio_div(SelectParagraphs(db_committed, f))
           page == FolioPage(f, paragraph_text, TemplateFor(f),
                             FolioBefore(folio_names, ri), FolioAfter(folio_names, ri),
                             media, multis)
       IN  /\ out_folio' = WriteFile(out_folio, f \o Html, page)
           /\ written' = written \cup {<<"folio", f \o Html>>}
           /\ warnings' = IF ImageBranch(f, media, multis) = "notice"
                          THEN Append(warnings, f) ELSE warnings
    /\ ri' = ri + 1
    /\ UNCHANGED <<notRender, media, multis, absent, out_word, run, folio_names,
                   words_left, r_pc>>

\* lines 90-96: the word template is read and the words selected
GenerateWordPagesOpen ==
    /\ r_pc = "folio_loop"
    /\ ri = Len(folio_names)
    /\ absent # "word"
    /\ words_left' = SelectWords(db_committed)
    /\ r_pc' = "word_loop"
    /\ UNCHANGED <<notRender, media, multis, absent, out_folio, out_word, written,
                   warnings, run, folio_names, ri>>

\* line 90: templates/word.html cannot be opened
GenerateWordPagesRaises ==
    /\ r_pc = "folio_loop"
    /\ ri = Len(folio_names)
    /\ absent = "word"
    /\ r_pc' = "fatal"
    /\ UNCHANGED <<notRender, media, multis, absent, out_folio, out_word, written,
                   warnings, run, folio_names, ri, words_left>>

\* lines 97-99 and generate_word_page: one word page is written; SELECT * has
\* no ORDER BY, the rows come in any order
GenerateWordPage ==
    /\ r_pc = "word_loop"
    /\ \E word \in words_left :
         /\ out_word' = WriteFile(out_word, word \o Html,
                                  WordPage(word, db_committed,
                                           set_template_commons(WordTemplateFile)))
         /\ written' = written \cup {<<"word", word \o Html>>}
         /\ words_left' = words_left \ {word}
    /\ UNCHANGED <<notRender, media, multis, absent, out_folio, warnings, run,
                   folio_names, ri, r_pc>>

\* lines 209-235: the two index pages are written
GenerateIndexPages ==
    /\ r_pc = "word_loop"
    /\ words_left = {}
    /\ absent # "general_index"
    /\ \E words_list \in ListDirOrders(out_word) :
         LET folio_list == [k \in 1..Len(SelectFolioNames(db_committed)) |->
                               SelectFolioNames(db_committed)[k] \o Html]
         IN  /\ out_word' = WriteFile(out_word, IndexFile,
                                      IndexPage("Word", get_list(words_list, <<>>, <<>>),
                                                explanation_word))
             /\ out_folio' = WriteFile(out_folio, IndexFile,
                                       IndexPage("Folio", get_list(folio_list, <<>>, <<>>),
                                                 explanation_folio))
    /\ written' = written \cup {<<"word", IndexFile>>, <<"folio", IndexFile>>}
    /\ r_pc' = "done"
    /\ UNCHANGED <<notRender, media, multis, absent, warnings, run, folio_names, ri,
                   words_left>>

\* line 216: templates/general_index.html cannot be opened
GenerateIndexPagesRaises ==
    /\ r_pc = "word_loop"
    /\ words_left = {}
    /\ absent = "general_index"
    /\ r_pc' = "fatal"
    /\ UNCHANGED <<notRender, media, multis, absent, out_folio, out_word, written,
                   warnings, run, folio_names, ri, words_left>>

\* vsig.py is run again on the same store, into the output tree as it is
RenderAgain ==
    /\ r_pc = "done"
    /\ run < MaxRuns
    /\ run' = run + 1
    /\ written' = {}
    /\ warnings' = <<>>
    /\ folio_names' = <<>>
    /\ ri' = 0
    /\ r_pc' = "start"
    /\ UNCHANGED <<notRender, media, multis, absent, out_folio, out_word, words_left>>

NextRender ==
    \/ GenerateFolioPagesOpen
    \/ GenerateFolioPagesRaises
    \/ GenerateFolioPage
    \/ GenerateWordPagesOpen
    \/ GenerateWordPagesRaises
    \/ GenerateWordPage
    \/ GenerateIndexPages
    \/ GenerateIndexPagesRaises
    \/ RenderAgain

SpecRender == InitRender /\ [][NextRender]_vars

\* vsig.py run on a store whose words are spelled like placeholder markers.
InitMarkers ==
    /\ full_text = <<>>
    /\ all_split = <<>>
    /\ i = 0
    /\ folios = <<>>
    /\ app_words = <<>>
    /\ app_folios = <<>>
    /\ unique_words = {}
    /\ folio_name = <<>>
    /\ processed = <<>>
    /\ pc = "off"
    /\ db_prior = EmptyStore
    /\ db_committed \in MarkerStores
    /\ db = db_committed
    /\ todo = <<>>
    /\ failed_phase = 0
    /\ SplitOff
    /\ media \in {{}, {F3r \o DotJpg}}
    /\ multis = {}
    /\ absent \in RequiredFiles \cup {"none"}
    /\ out_folio = NoFiles
    /\ out_word = NoFiles
    /\ written = {}
    /\ warnings = <<>>
    /\ run = 1
    /\ folio_names = <<>>
    /\ ri = 0
    /\ words_left = {}
    /\ r_pc = "start"

SpecMarkers == InitMarkers /\ [][NextRender]_vars

-----------------------------------------------------------------------------
(* The word index: C1, C2, C12 *)

\* The (word, folio) pairs the index holds, with their positions.
IndexPairs ==
    UNION {{<<k, m>> : m \in 1..Len(app_folios[k])} : k \in 1..Len(app_words)}

\* How many times the index lists folio f for word w.
PairCount(w, f) ==
    Cardinality({km \in IndexPairs : app_words[km[1]] = w /\ app_folios[km[1]][km[2]] = f})

\* The names of the folios processed so far whose text holds the word w, in
\* the order they were processed.
FoliosHolding(w) ==
    LET holding == SelectSeq(processed, LAMBDA p : w \in Range(WordsOf(p.paragraphs)))
    IN  [k \in 1..Len(holding) |-> holding[k].name]

\* C1 (as claimed): once split_folios has returned, every non-empty word of
\* every folio it processed is listed with that folio exactly once in the
\* index, whatever folio names the boundary tokens carry.
C1_ExactlyOnePairPerWordAndFolio ==
    pc = "parsed" =>
        \A p \in Range(processed) :
            \A w \in Range(WordsOf(p.paragraphs)) \ {<<>>} : PairCount(w, p.name) = 1

\* C2: between folios and at the end, the index holds exactly the words seen
\* so far, each once, and lists for each word the folios holding it in the
\* order the folios were processed, whatever order set.pop() took the words in.
C2_FoliosInProcessingOrder ==
    pc \in {"split", "parsed"} =>
        /\ Range(app_words) = UNION {Range(WordsOf(p.paragraphs)) : p \in Range(processed)}
        /\ Len(app_folios) = Len(app_words)
        /\ \A k \in 1..Len(app_words) :
              /\ app_folios[k] = FoliosHolding(app_words[k])
              /\ \A m \in 1..Len(app_words) : app_words[m] = app_words[k] => m = k

\* C2 witness: the corpus of the example (f1r holding a.b, then f2v holding
\* b.c and b) indexed with the shared word taken first in f1r.
C2_Witness ==
    /\ pc = "parsed"
    /\ full_text = TagF1r \o LineAB \o TagF2v \o LineBC
    /\ app_words = << <<"b">>, <<"a">>, <<"c">> >>
    /\ app_folios = << <<F1r, F2v>>, <<F1r>>, <<F2v>> >>

\* The non-empty tokens of the paragraphs the returned folio map holds for
\* the folio f (none when the map has no such key).
TokensHeld(f) ==
    UNION {Range(WordsOf(p.paragraphs)) : p \in {q \in Range(folios) : q.name = f}} \ {<<>>}

\* C12 (as claimed): once split_folios has returned, every (word, folio) pair
\* of the index is backed by the folio map it returns: the word is a non-empty
\* token of a paragraph the map holds for that folio, so a folio without
\* paragraphs has no pair and no pair refers to text the map no longer holds.
C12_EveryAppearanceBacked ==
    pc = "parsed" =>
        \A km \in IndexPairs : app_words[km[1]] \in TokensHeld(app_folios[km[1]][km[2]])

-----------------------------------------------------------------------------
(* The store: C3, C10 *)

\* C3: a parsed corpus written into an empty store reads back, by primary key
\* order, as the parser's folio order, every folio's paragraph order and every
\* word's folio list.
C3_RoundTrip ==
    (pc = "stored" /\ db_prior = EmptyStore) =>
        /\ SelectFolioNames(db_committed) = [k \in 1..Len(folios) |-> folios[k].name]
        /\ \A k \in 1..Len(folios) :
              SelectParagraphs(db_committed, folios[k].name) = folios[k].paragraphs
        /\ SelectWords(db_committed) = Range(app_words)
        /\ \A k \in 1..Len(app_words) :
              SelectAppearances(db_committed, app_words[k]) = app_folios[k]

\* C3 witness: a stored corpus of two folios, one of them with two paragraphs,
\* and a word listed for two different folios.
C3_Witness ==
    /\ pc = "stored"
    /\ db_prior = EmptyStore
    /\ Len(folios) = 2
    /\ \E k \in 1..Len(folios) : Len(folios[k].paragraphs) = 2
    /\ \E k \in 1..Len(app_words) :
          /\ app_words[k] # <<>>
          /\ Len(app_folios[k]) = 2
          /\ app_folios[k][1] # app_folios[k][2]
          /\ SelectAppearances(db_committed, app_words[k]) = app_folios[k]

\* The rows of table k that this run has added to a store.
Added(store, k) == store[Tables[k]] \ db_prior[Tables[k]]

\* The rows this run added to table k, in primary key order, without the key.
AddedInOrder(store, k) ==
    LET rows == OrderById(Added(store, k))
    IN  [m \in 1..Len(rows) |-> [x \in (DOMAIN rows[m]) \ {"id"} |-> rows[m][x]]]

\* Phase k is in the store in full.
PhaseInFull(store, k) == AddedInOrder(store, k) = RowsOfPhase(k)

\* C10: a row of phase k is inserted only when every earlier phase is committed
\* in full, and a write that raises in phase k leaves the store file with the
\* earlier phases in full and with no row of this run in phase k or later.
C10_PhasesCommittedInOrder ==
    /\ \A k \in 1..4 :
          Added(db, k) # {} => \A j \in 1..(k - 1) : PhaseInFull(db_committed, j)
    /\ pc = "aborted" =>
          /\ failed_phase \in 1..4
          /\ \A j \in 1..(failed_phase - 1) : PhaseInFull(db_committed, j)
          /\ \A j \in failed_phase..4 : Added(db_committed, j) = {}
          /\ db = db_committed

\* C10 witness: the third phase raised after it had inserted a word, with
\* folios and paragraphs committed before it.
C10_Witness ==
    /\ pc = "aborted"
    /\ failed_phase = 3
    /\ Len(todo) < Len(RowsOfPhase(3))
    /\ Added(db_committed, 1) # {}
    /\ Added(db_committed, 2) # {}
    /\ Added(db_committed, 3) = {}

-----------------------------------------------------------------------------
(* Composite image names: C9 *)

\* The token at position k of the composite name, trimmed, without a
\* trailing .jpg.
TrimmedToken(k) ==
    LET t == Strip(SplitOn(composite_name, ",")[k])
    IN  IF EndsWith(t, DotJpg) THEN SubSeq(t, 1, Len(t) - Len(DotJpg)) ELSE t

\* t is a whole folio name: f, digits, v or r, then digits only.
IsFolioName(t) ==
    /\ Len(t) >= 3 /\ t[1] = "f"
    /\ LET d == SkipDigits(t, 2)
       IN  /\ d > 2 /\ d <= Len(t)
           /\ t[d] \in {"v", "r"}
           /\ SkipDigits(t, d + 1) = Len(t) + 1

\* The leading f and digits of a folio name.
NumberOfFolio(t) == SubSeq(t, 1, SkipDigits(t, 2) - 1)

\* The leading f, digits and side letter of a folio name.
NumberAndSideOfFolio(t) == SubSeq(t, 1, SkipDigits(t, 2))

ExampleName ==
    <<"f", "7", "1", "v", ",", " ", "f", "7", "2", "r", "1", ",", "r", "2", ",",
      "3", ".", "j", "p", "g">>

ExampleFolios ==
    << <<"f", "7", "1", "v">>, <<"f", "7", "2", "r", "1">>,
       <<"f", "7", "2", "r", "2">>, <<"f", "7", "2", "r", "3">> >>

-----------------------------------------------------------------------------
(* The rendered pages: C4, C5, C6, C7, C8 *)

\* The folios whose page the running render run has written.
RenderedFolios == {f \in Range(folio_names) : <<"folio", f \o Html>> \in written}

\* The page of folio f in the output tree.
PageOfFolio(f) == out_folio[f \o Html]

\* How many warnings of the running render run name folio f.
WarningCount(f) == Cardinality({k \in 1..Len(warnings) : warnings[k] = f})

\* How many times the symbol sym stands in the page.
CountOf(page, sym) == Cardinality({p \in 1..Len(page) : page[p] = sym})

\* The image block with the file name img in place of the placeholder image.
ImageBlockOf(img) == <<folio_image[1]>> \o img \o <<folio_image[3]>>

\* C4: a rendered folio whose resolved image is not in media/ has, when it is
\* no known gap, the missing-image notice in place of the image block and
\* exactly one warning naming it, and, when it is a known gap, the page of the
\* missing-folio template and no warning.
C4_MissingImageNoticeOrGapTemplate ==
    \A f \in RenderedFolios :
        ImageName(f, multis) \notin media =>
            IF f \notin missing_folios
            THEN /\ ContainsSeq(PageOfFolio(f), missing_card)
                 /\ ~ContainsSeq(PageOfFolio(f), folio_image)
                 /\ CountOf(PageOfFolio(f), MissingFolioNotice) = 0
                 /\ WarningCount(f) = 1
            ELSE /\ CountOf(PageOfFolio(f), MissingFolioNotice) = 1
                 /\ ~ContainsSeq(PageOfFolio(f), missing_card)
                 /\ WarningCount(f) = 0

\* C4 witness: a run that has rendered f2v and the known gap f12v, the images
\* of both missing.
C4_Witness ==
    /\ r_pc = "done"
    /\ {F2v, F12v} \subseteq RenderedFolios
    /\ ImageName(F2v, multis) \notin media
    /\ ImageName(F12v, multis) \notin media
    /\ warnings = <<F2v>>

\* C5 (as claimed): every rendered folio whose resolved image is in media/,
\* known gap or not, has the page of the normal folio template with the image
\* block naming that file.
C5_ImagePresentGivesFolioTemplate ==
    \A f \in RenderedFolios :
        ImageName(f, multis) \in media =>
            /\ CountOf(PageOfFolio(f), MissingFolioNotice) = 0
            /\ ContainsSeq(PageOfFolio(f), ImageBlockOf(ImageName(f, multis)))

BeforeOpen == "<a id=\"before_link\" href=\""
AfterOpen == "<a id=\"after_link\" href=\""

\* C6: the page of the folio at position k of the N folios of the store has a
\* previous link exactly when k is not the first, to the folio before it, and
\* a next link exactly when k is not the last, to the folio after it.
C6_NeighbourLinks ==
    \A f \in RenderedFolios :
        LET k == IndexOf(folio_names, f)
            N == Len(folio_names)
            page == PageOfFolio(f)
        IN  /\ CountOf(page, BeforeOpen) = IF k > 1 THEN 1 ELSE 0
            /\ k > 1 =>
                 ContainsSeq(page, <<BeforeOpen>> \o folio_names[k - 1] \o Html)
            /\ CountOf(page, AfterOpen) = IF k < N THEN 1 ELSE 0
            /\ k < N =>
                 ContainsSeq(page, <<AfterOpen>> \o folio_names[k + 1] \o Html)

\* C6 witness: three folios rendered, the middle one linking to both others.
C6_Witness ==
    /\ Len(folio_names) = 3
    /\ Range(folio_names) = RenderedFolios
    /\ CountOf(PageOfFolio(folio_names[2]), BeforeOpen) = 1
    /\ CountOf(PageOfFolio(folio_names[2]), AfterOpen) = 1
    /\ CountOf(PageOfFolio(folio_names[1]), BeforeOpen) = 0
    /\ CountOf(PageOfFolio(folio_names[3]), AfterOpen) = 0

\* C7 (as claimed): a render run that ends on a missing template or store
\* file has written no page.
C7_FatalBeforeAnyPage == r_pc = "fatal" => written = {}

\* C8 (as claimed): at the end of every render run word/index.html lists, in
\* some order, the word pages of the words of the store and nothing else, and
\* folio/index.html lists the folios of the store in store order.
C8_IndexListsExactlyThePages ==
    r_pc = "done" =>
        /\ \E order \in OrdersOf({w \o Html : w \in SelectWords(db_committed)}) :
              out_word[IndexFile] =
                 IndexPage("Word", get_list(order, <<>>, <<>>), explanation_word)
        /\ out_folio[IndexFile] =
              IndexPage("Folio",
                        get_list([k \in 1..Len(SelectFolioNames(db_committed)) |->
                                     SelectFolioNames(db_committed)[k] \o Html], <<>>, <<>>),
                        explanation_folio)

-----------------------------------------------------------------------------
(* Template substitution: C11 *)

\* What a symbol of a template becomes when the template is substituted in
\* one pass: the value of the substitution that names it, else itself.
ValueFor(substitutions, symbol) ==
    IF \E k \in 1..Len(substitutions) : substitutions[k].key = symbol
    THEN substitutions[CHOOSE k \in 1..Len(substitutions) :
                          substitutions[k].key = symbol].value
    ELSE <<symbol>>

\* The template with every marker replaced once by its value, the values
\* themselves left as they are.
SubstituteOnce(template, substitutions) ==
    Flatten([k \in 1..Len(template) |-> ValueFor(substitutions, template[k])])

\* The page of the folio at position k of folio_names when its template is
\* substituted in one pass.
SinglePassFolioPage(k) ==
    LET f == folio_names[k]
        folio_before == FolioBefore(folio_names, k - 1)
        folio_after == FolioAfter(folio_names, k - 1)
        branch == ImageBranch(f, media, multis)
        template == IF branch = "notice"
                    THEN ReplaceAll(TemplateFor(f), folio_image, missing_card)
                    ELSE TemplateFor(f)
    IN  SubstituteOnce(template,
          << [key |-> "{%folioName%}", value |-> f],
             [key |-> "{%contents%}",
              value |-> generate_folio_div(SelectParagraphs(db_committed, f))],
             [key |-> "{%before%}",
              value |-> IF folio_before # None THEN BeforeLink(folio_before) ELSE <<>>],
             [key |-> "{%after%}",
              value |-> IF folio_after # None THEN AfterLink(folio_after) ELSE <<>>],
             [key |-> FirstFolioLink[1],
              value |-> IF folio_before # None THEN FirstFolioLink ELSE <<>>],
             [key |-> LastFolioLink[1],
              value |-> IF folio_after # None THEN LastFolioLink ELSE <<>>],
             [key |-> "portrait.jpg",
              value |-> IF branch = "image" THEN ImageName(f, multis)
                        ELSE <<"portrait.jpg">>] >>)

\* The page of a word when the word template is substituted in one pass.
SinglePassWordPage(word) ==
    LET appearances == SelectAppearances(db_committed, word)
    IN  SubstituteOnce(set_template_commons(WordTemplateFile),
          << [key |-> "{%wordName%}", value |-> word],
             [key |-> "{%wordAppearanceCount%}", value |-> <<ToString(Len(appearances))>>],
             [key |-> "{%appearances%}",
              value |-> get_list(appearances, <<"../folio/">>, Html)] >>)

\* An index page when the index template is substituted in one pass.
SinglePassIndexPage(title, list_section, explanation) ==
    SubstituteOnce(set_template_commons(GeneralIndexTemplateFile),
          << [key |-> "{%page-title%}", value |-> <<title>>],
             [key |-> "{%list_section%}", value |-> list_section],
             [key |-> "{%explanation%}", value |-> explanation] >>)

\* C11 (as claimed): every page written is its template with each placeholder
\* marker replaced exactly once by its computed value; text brought in by a
\* value (a folio name, a word, paragraph markup, a list) is never substituted
\* itself, also when it is spelled like a placeholder marker.
C11_SubstitutedOnce ==
    /\ \A k \in 1..Len(folio_names) :
          <<"folio", folio_names[k] \o Html>> \in written =>
              out_folio[folio_names[k] \o Html] = SinglePassFolioPage(k)
    /\ \A word \in SelectWords(db_committed) :
          <<"word", word \o Html>> \in written =>
              out_word[word \o Html] = SinglePassWordPage(word)
    /\ r_pc = "done" =>
          /\ \E words_list \in OrdersOf(DOMAIN out_word)
                                 \cup OrdersOf((DOMAIN out_word) \ {IndexFile}) :
                out_word[IndexFile] =
                   SinglePassIndexPage("Word", get_list(words_list, <<>>, <<>>),
                                       explanation_word)
          /\ out_folio[IndexFile] =
                SinglePassIndexPage(
                    "Folio",
                    get_list([k \in 1..Len(SelectFolioNames(db_committed)) |->
                                 SelectFolioNames(db_committed)[k] \o Html], <<>>, <<>>),
                    explanation_folio)

====
